---- MODULE Spec2Model ----
(***************************************************************************)
(* Model of app.py: the four-state session workflow (Idle, Running,        *)
(* Complete, Failure) driven by Streamlit script runs, the grouping helper *)
(* group_updates_by_impact and the report renderer generate_pdf.           *)
(*                                                                         *)
(* Abstractions: wall-clock values (timestamps in log lines, elapsed       *)
(* seconds) are dropped from the log strings; the PDF byte string is       *)
(* represented by the flowable list handed to doc.build.                   *)
(***************************************************************************)
EXTENDS Integers, Sequences, FiniteSets, TLC

VARIABLES state, results, rationales, affected, logs, error,
          widgets, pc, call, pdf_bytes, group_ret

vars == <<state, results, rationales, affected, logs, error,
          widgets, pc, call, pdf_bytes, group_ret>>

(***************************************************************************)
(* Bounds                                                                  *)
(***************************************************************************)
MaxLog == 6
MaxUpdates == 3
MaxEditId == 1

(***************************************************************************)
(* Input samples                                                           *)
(***************************************************************************)
Msgs == {"Simulated analysis failure.", ""}
EditTexts == {"", "Shield"}
Timestamps == {"2025-01-01 09:00", "2025-01-01 09:01"}
Levels == {"CRITICAL", "HIGH", "MEDIUM", "LOW"}
InputLevels == Levels \cup {"UNKNOWN"}

(***************************************************************************)
(* Seeded data                                                             *)
(***************************************************************************)
COUNTRIES ==
  <<"United States", "United Kingdom", "Japan", "United Arab Emirates",
    "Korea, Republic of", "India", "China", "Italy", "Switzerland", "Taiwan",
    "Spain", "Turkey", "Israel", "Germany", "Canada">>

PRODUCTS ==
  <<"Guardant360", "Guardant360 CDx", "GuardantOMNI", "Guardant Reveal", "Shield">>

STUB_UPDATES ==
  << [id |-> 1,
      country |-> "United States",
      regulation_name |-> "CLIA Update 2025",
      reference_number |-> "CLIA-2025-01",
      authority |-> "CMS",
      summary |-> "CLIA regulations updated for NGS-based diagnostics.",
      key_changes |-> <<"Expanded oversight for ctDNA tests.",
                        "New reporting requirements.",
                        "Shortened compliance window.">>,
      effective_date |-> "2025-12-01",
      compliance_deadline |-> "2026-03-01",
      transition_period |-> "3 months",
      applicable |-> TRUE,
      impact_level |-> "CRITICAL",
      harmonization |-> <<"CLIA", "CAP", "FDA guidance">>,
      affected_products |-> <<"Guardant360", "GuardantOMNI">>,
      rationale |-> "Immediate compliance required for NGS-based tests."],
     [id |-> 2,
      country |-> "Japan",
      regulation_name |-> "PMDA Guidance on Liquid Biopsy",
      reference_number |-> "PMDA-2025-02",
      authority |-> "PMDA",
      summary |-> "New guidance for liquid biopsy cancer screening.",
      key_changes |-> <<"Clarified requirements for ctDNA.",
                        "Introduced ISO 15189 mapping.",
                        "Defined transition period.">>,
      effective_date |-> "2026-01-15",
      compliance_deadline |-> "2026-07-15",
      transition_period |-> "6 months",
      applicable |-> TRUE,
      impact_level |-> "HIGH",
      harmonization |-> <<"ISO 15189", "IMDRF">>,
      affected_products |-> <<"Guardant Reveal">>,
      rationale |-> "Action required within 3 months for new tests."],
     [id |-> 3,
      country |-> "Germany",
      regulation_name |-> "EU IVDR Update",
      reference_number |-> "IVDR-2025-03",
      authority |-> "BfArM",
      summary |-> "EU IVDR changes for multi-gene panels.",
      key_changes |-> <<"Expanded scope for NGS panels.",
                        "New harmonization with ISO 13485.",
                        "Monitoring only for now.">>,
      effective_date |-> "2025-11-01",
      compliance_deadline |-> "2026-05-01",
      transition_period |-> "6 months",
      applicable |-> FALSE,
      impact_level |-> "LOW",
      harmonization |-> <<"ISO 13485", "EU IVDR">>,
      affected_products |-> << >>,
      rationale |-> "Monitoring only; no immediate action."] >>

(***************************************************************************)
(* Python helpers: str.join, dict.get, dict item assignment                *)
(***************************************************************************)
RECURSIVE Join(_, _)
Join(sep, items) ==
  IF Len(items) = 0 THEN ""
  ELSE IF Len(items) = 1 THEN items[1]
  ELSE items[1] \o sep \o Join(sep, Tail(items))

EmptyDict == [k \in {} |-> ""]

DictGet_Falsy(d, k, default) ==
  IF k \in DOMAIN d /\ d[k] # "" THEN d[k] ELSE default

DictGet(d, k, default) == IF k \in DOMAIN d THEN d[k] ELSE default

DictSet(d, k, v) == [x \in (DOMAIN d) \cup {k} |-> IF x = k THEN v ELSE d[x]]

(***************************************************************************)
(* group_updates_by_impact                                                 *)
(***************************************************************************)
EmptyBuckets == [l \in Levels |-> << >>]

RECURSIVE GroupLoop_Prepend(_, _, _)
GroupLoop_Prepend(updates, i, buckets) ==
  IF i > Len(updates) THEN [raised |-> FALSE, value |-> buckets]
  ELSE IF updates[i].impact_level \notin DOMAIN buckets
       THEN [raised |-> TRUE, value |-> EmptyBuckets]
       ELSE GroupLoop_Prepend(updates, i + 1,
              [buckets EXCEPT ![updates[i].impact_level] = <<updates[i]>> \o @])

RECURSIVE GroupLoop_Skip(_, _, _)
GroupLoop_Skip(updates, i, buckets) ==
  IF i > Len(updates) THEN [raised |-> FALSE, value |-> buckets]
  ELSE IF updates[i].impact_level \notin DOMAIN buckets
       THEN GroupLoop_Skip(updates, i + 1, buckets)
       ELSE GroupLoop_Skip(updates, i + 1,
              [buckets EXCEPT ![updates[i].impact_level] = Append(@, updates[i])])

RECURSIVE GroupLoop(_, _, _)
GroupLoop(updates, i, buckets) ==
  IF i > Len(updates) THEN [raised |-> FALSE, value |-> buckets]
  ELSE IF updates[i].impact_level \notin DOMAIN buckets
       THEN [raised |-> TRUE, value |-> EmptyBuckets]       \* KeyError
       ELSE GroupLoop(updates, i + 1,
              [buckets EXCEPT ![updates[i].impact_level] = Append(@, updates[i])])

group_updates_by_impact(updates) == GroupLoop(updates, 1, EmptyBuckets)

(***************************************************************************)
(* generate_pdf: the flowables appended to `elements`                      *)
(***************************************************************************)
Paragraph(text, style) == [kind |-> "Paragraph", text |-> text, style |-> style]
Spacer(height) == [kind |-> "Spacer", text |-> "", style |-> height]
PageBreak == [kind |-> "PageBreak", text |-> "", style |-> ""]

impact_sections ==
  << <<"CRITICAL", "Critical or High Priority">>,
     <<"HIGH", "High Priority">>,
     <<"MEDIUM", "Medium Priority">>,
     <<"LOW", "Emerging Trends / No Material Changes">> >>

Banner(update) ==
  IF update.applicable THEN "GUARDANT HEALTH APPLICABLE" ELSE "NOT DIRECTLY APPLICABLE"

HeaderElements(now) ==
  << Paragraph("Guardant Health Regulatory Intelligence - MVP Report", "Heading1"),
     Spacer("0.2"),
     Paragraph("Countries: " \o Join(", ", COUNTRIES), "Normal"),
     Paragraph("Products: " \o Join(", ", PRODUCTS), "Normal"),
     Spacer("0.2"),
     Paragraph("Generated at: " \o now, "Normal"),
     Spacer("0.3") >>

RECURSIVE KeyChangeElements(_)
KeyChangeElements(changes) ==
  IF Len(changes) = 0 THEN << >>
  ELSE <<Paragraph("- " \o changes[1], "Normal")>> \o KeyChangeElements(Tail(changes))

RecordElements(update, rats, affs) ==
  LET rationale == DictGet(rats, update.id, update.rationale)
      affected_str == DictGet(affs, update.id, Join(", ", update.affected_products))
  IN  << Paragraph("<b>[" \o Banner(update) \o "]</b>", "Normal"),
         Paragraph("<b>Country & Regulation</b>: " \o update.country \o ", "
                   \o update.regulation_name \o " (" \o update.reference_number
                   \o "), " \o update.authority, "Normal"),
         Paragraph("<b>Change Summary</b>: " \o update.summary, "Normal"),
         Paragraph("<b>Key Changes:</b>", "Normal") >>
      \o KeyChangeElements(update.key_changes)
      \o << Paragraph("<b>Guardant Health Impact Assessment:</b>", "Normal"),
            Paragraph("- <b>Impact Level</b>: " \o update.impact_level, "Normal"),
            Paragraph("- <b>Rationale</b>: " \o rationale, "Normal"),
            Paragraph("- <b>Affected Products or Operations</b>: " \o affected_str, "Normal"),
            Paragraph("<b>Action Required:</b>", "Normal"),
            Paragraph("1. [Specific compliance step 1]", "Normal"),
            Paragraph("2. [Specific compliance step 2]", "Normal"),
            Paragraph("3. [Specific compliance step 3]", "Normal"),
            Paragraph("<b>Timeline:</b>", "Normal"),
            Paragraph("- Effective Date: " \o update.effective_date, "Normal"),
            Paragraph("- Compliance Deadline: " \o update.compliance_deadline, "Normal"),
            Paragraph("- Transition Period: " \o update.transition_period, "Normal"),
            Paragraph("<b>Related Standards or Regulations</b>: "
                      \o Join(", ", update.harmonization), "Normal"),
            Paragraph("<b>Cross-Reference:</b> [Links or notes to similar changes in other countries if applicable]", "Normal"),
            Spacer("0.2") >>

RECURSIVE SectionRecords_Reversed(_, _, _)
SectionRecords_Reversed(section_updates, rats, affs) ==
  IF Len(section_updates) = 0 THEN << >>
  ELSE SectionRecords_Reversed(Tail(section_updates), rats, affs)
       \o RecordElements(section_updates[1], rats, affs)

RECURSIVE SectionRecords(_, _, _)
SectionRecords(section_updates, rats, affs) ==
  IF Len(section_updates) = 0 THEN << >>
  ELSE RecordElements(section_updates[1], rats, affs)
       \o SectionRecords(Tail(section_updates), rats, affs)

SectionElements_OmitEmpty(section_title, section_updates, rats, affs) ==
  IF Len(section_updates) = 0 THEN << >>
  ELSE << Paragraph(section_title, "Heading2"), Spacer("0.15") >>
       \o SectionRecords(section_updates, rats, affs) \o << PageBreak >>

SectionElements(section_title, section_updates, rats, affs) ==
  << Paragraph(section_title, "Heading2"), Spacer("0.15") >>
  \o IF Len(section_updates) = 0
     THEN << Paragraph("No updates in this section.", "Normal"), Spacer("0.1") >>
          \* `continue`: the PageBreak below is skipped
     ELSE SectionRecords(section_updates, rats, affs) \o << PageBreak >>

RECURSIVE SectionLoop(_, _, _, _)
SectionLoop(k, buckets, rats, affs) ==
  IF k > Len(impact_sections) THEN << >>
  ELSE SectionElements(impact_sections[k][2], buckets[impact_sections[k][1]], rats, affs)
       \o SectionLoop(k + 1, buckets, rats, affs)

generate_pdf(updates, rats, affs, now) ==
  LET grouped == group_updates_by_impact(updates)
  IN  IF grouped.raised
      THEN [kind |-> "raised", elements |-> << >>]
      ELSE [kind |-> "ok",
            elements |-> HeaderElements(now) \o SectionLoop(1, grouped.value, rats, affs)]

(***************************************************************************)
(* Session state (st.session_state) and script position                    *)
(*                                                                         *)
(* pc = "wait"   the script run has ended; the view waits for the user     *)
(* pc = "rerun"  st.experimental_rerun() was called; the next run is due   *)
(* pc = "run1".."run3"  inside the Running branch, after that many         *)
(*               "started" log lines                                       *)
(* pc = "pdf"    generate_pdf exercised on its own (SpecPdf)               *)
(***************************************************************************)
ErrUnset == [kind |-> "unset", msg |-> ""]     \* key 'error' not in session_state
ErrNone == [kind |-> "none", msg |-> ""]       \* session_state['error'] = None
ErrStr(m) == [kind |-> "str", msg |-> m]       \* session_state['error'] = str(e)

ResultsNone == [kind |-> "none", value |-> << >>]
ResultsList(l) == [kind |-> "list", value |-> l]

NoWidgets == [rationale |-> EmptyDict, affected |-> EmptyDict]
NoCall == [updates |-> << >>, rationales |-> EmptyDict, affected |-> EmptyDict, now |-> ""]
NoPdf == [kind |-> "none", elements |-> << >>]

\* `buckets`, the value group_updates_by_impact returned to the running script
NoGroupRet == [called |-> FALSE, raised |-> FALSE, value |-> EmptyBuckets]
GroupRet(updates) ==
  LET g == group_updates_by_impact(updates)
  IN  [called |-> TRUE, raised |-> g.raised, value |-> g.value]

LogIngestion == "Ingestion started"
LogParsing == "Parsing started"
LogClassification == "Classification started"
LogComplete == "Analysis complete"
LogError(m) == "Error: " \o m
LogPdf == "PDF rendered"

Init ==
  /\ state = "Idle"
  /\ results = ResultsNone
  /\ rationales = EmptyDict
  /\ affected = EmptyDict
  /\ logs = << >>
  /\ error = ErrUnset
  /\ widgets = NoWidgets
  /\ pc = "wait"
  /\ call = NoCall
  /\ pdf_bytes = NoPdf
  /\ group_ret = NoGroupRet

(***************************************************************************)
(* Complete view: the cards and the edit-map population                    *)
(***************************************************************************)
render_update_card(update, w) ==
  [rationale |-> DictGet(w.rationale, update.id, update.rationale),
   affected |-> DictGet(w.affected, update.id, Join(", ", update.affected_products))]

RECURSIVE CardLoop_SwappedField(_, _, _, _)
CardLoop_SwappedField(cards, rats, affs, w) ==
  IF Len(cards) = 0 THEN [rationales |-> rats, affected |-> affs, widgets |-> w]
  ELSE LET update == cards[1]
           card == render_update_card(update, w)
       IN  CardLoop_SwappedField(Tail(cards),
                    DictSet(rats, update.id, card.rationale),
                    DictSet(affs, update.id, card.rationale),
                    [rationale |-> DictSet(w.rationale, update.id, card.rationale),
                     affected |-> DictSet(w.affected, update.id, card.affected)])

RECURSIVE CardLoop(_, _, _, _)
CardLoop(cards, rats, affs, w) ==
  IF Len(cards) = 0 THEN [rationales |-> rats, affected |-> affs, widgets |-> w]
  ELSE LET update == cards[1]
           card == render_update_card(update, w)
       IN  CardLoop(Tail(cards),
                    DictSet(rats, update.id, card.rationale),
                    DictSet(affs, update.id, card.affected),
                    [rationale |-> DictSet(w.rationale, update.id, card.rationale),
                     affected |-> DictSet(w.affected, update.id, card.affected)])

CompleteView(updates, rats, affs, w) ==
  LET buckets == group_updates_by_impact(updates).value
  IN  CardLoop(buckets["CRITICAL"] \o buckets["HIGH"] \o buckets["MEDIUM"] \o buckets["LOW"],
               rats, affs, w)

(***************************************************************************)
(* User actions                                                            *)
(***************************************************************************)
RunAnalysis_ClearLogs ==
  /\ pc = "wait"
  /\ state = "Idle"
  /\ Len(logs) + 4 <= MaxLog
  /\ state' = "Running"
  /\ error' = ErrNone
  /\ logs' = << >>
  /\ pc' = "rerun"
  /\ UNCHANGED <<results, rationales, affected, widgets, call, pdf_bytes, group_ret>>

RunAnalysis_NoRerun ==
  /\ pc = "wait"
  /\ state = "Idle"
  /\ Len(logs) + 4 <= MaxLog
  /\ state' = "Running"
  /\ error' = ErrNone
  /\ UNCHANGED <<results, rationales, affected, logs, widgets, pc, call, pdf_bytes, group_ret>>

RunAnalysis ==
  /\ pc = "wait"
  /\ state = "Idle"
  /\ Len(logs) + 4 <= MaxLog
  /\ state' = "Running"
  /\ error' = ErrNone
  /\ pc' = "rerun"
  /\ UNCHANGED <<results, rationales, affected, logs, widgets, call, pdf_bytes, group_ret>>

EditRationale(id, text) ==
  /\ pc = "wait"
  /\ state = "Complete"
  /\ group_ret' = GroupRet(results.value)
  /\ id \in DOMAIN widgets.rationale
  /\ widgets.rationale[id] # text
  /\ LET view == CompleteView(results.value, rationales, affected,
                              [widgets EXCEPT !.rationale[id] = text])
     IN  /\ rationales' = view.rationales
         /\ affected' = view.affected
         /\ widgets' = view.widgets
  /\ call' = NoCall
  /\ pdf_bytes' = NoPdf
  /\ UNCHANGED <<state, results, logs, error, pc>>

EditAffected(id, text) ==
  /\ pc = "wait"
  /\ state = "Complete"
  /\ group_ret' = GroupRet(results.value)
  /\ id \in DOMAIN widgets.affected
  /\ widgets.affected[id] # text
  /\ LET view == CompleteView(results.value, rationales, affected,
                              [widgets EXCEPT !.affected[id] = text])
     IN  /\ rationales' = view.rationales
         /\ affected' = view.affected
         /\ widgets' = view.widgets
  /\ call' = NoCall
  /\ pdf_bytes' = NoPdf
  /\ UNCHANGED <<state, results, logs, error, pc>>

DownloadPDF_NoLog(now) ==
  /\ pc = "wait"
  /\ state = "Complete"
  /\ group_ret' = GroupRet(results.value)
  /\ Len(logs) < MaxLog
  /\ LET view == CompleteView(results.value, rationales, affected, widgets)
     IN  /\ rationales' = view.rationales
         /\ affected' = view.affected
         /\ widgets' = view.widgets
         /\ call' = [updates |-> results.value, rationales |-> view.rationales,
                     affected |-> view.affected, now |-> now]
         /\ pdf_bytes' = generate_pdf(results.value, view.rationales, view.affected, now)
  /\ UNCHANGED <<state, results, logs, error, pc>>

DownloadPDF(now) ==
  /\ pc = "wait"
  /\ state = "Complete"
  /\ group_ret' = GroupRet(results.value)
  /\ Len(logs) < MaxLog
  /\ LET view == CompleteView(results.value, rationales, affected, widgets)
     IN  /\ rationales' = view.rationales
         /\ affected' = view.affected
         /\ widgets' = view.widgets
         /\ call' = [updates |-> results.value, rationales |-> view.rationales,
                     affected |-> view.affected, now |-> now]
         /\ pdf_bytes' = generate_pdf(results.value, view.rationales, view.affected, now)
  /\ logs' = Append(logs, LogPdf)
  /\ UNCHANGED <<state, results, error, pc>>

\* The "Download PDF Report" button shown by the Download PDF run: taking the
\* file reruns the script with no st.button pressed.
DownloadReport ==
  /\ pc = "wait"
  /\ state = "Complete"
  /\ group_ret' = GroupRet(results.value)
  /\ pdf_bytes # NoPdf
  /\ LET view == CompleteView(results.value, rationales, affected, widgets)
     IN  /\ rationales' = view.rationales
         /\ affected' = view.affected
         /\ widgets' = view.widgets
  /\ call' = NoCall
  /\ pdf_bytes' = NoPdf
  /\ UNCHANGED <<state, results, logs, error, pc>>

Reset_KeepMaps ==
  /\ pc = "wait"
  /\ state = "Complete"
  /\ LET view == CompleteView(results.value, rationales, affected, widgets)
     IN  /\ widgets' = view.widgets
         /\ rationales' = view.rationales
         /\ affected' = view.affected
  /\ group_ret' = GroupRet(results.value)
  /\ state' = "Idle"
  /\ results' = ResultsNone
  /\ logs' = << >>
  /\ error' = ErrNone
  /\ pc' = "rerun"
  /\ call' = NoCall
  /\ pdf_bytes' = NoPdf

Reset_KeepResults ==
  /\ pc = "wait"
  /\ state = "Complete"
  /\ group_ret' = GroupRet(results.value)
  /\ widgets' = CompleteView(results.value, rationales, affected, widgets).widgets
  /\ state' = "Idle"
  /\ rationales' = EmptyDict
  /\ affected' = EmptyDict
  /\ logs' = << >>
  /\ error' = ErrNone
  /\ pc' = "rerun"
  /\ call' = NoCall
  /\ pdf_bytes' = NoPdf
  /\ UNCHANGED results

Reset_KeepLogs ==
  /\ pc = "wait"
  /\ state = "Complete"
  /\ group_ret' = GroupRet(results.value)
  /\ widgets' = CompleteView(results.value, rationales, affected, widgets).widgets
  /\ state' = "Idle"
  /\ results' = ResultsNone
  /\ rationales' = EmptyDict
  /\ affected' = EmptyDict
  /\ error' = ErrNone
  /\ pc' = "rerun"
  /\ call' = NoCall
  /\ pdf_bytes' = NoPdf
  /\ UNCHANGED logs

Reset ==
  /\ pc = "wait"
  /\ state = "Complete"
  /\ group_ret' = GroupRet(results.value)
  /\ widgets' = CompleteView(results.value, rationales, affected, widgets).widgets
  /\ state' = "Idle"
  /\ results' = ResultsNone
  /\ rationales' = EmptyDict
  /\ affected' = EmptyDict
  /\ logs' = << >>
  /\ error' = ErrNone
  /\ pc' = "rerun"
  /\ call' = NoCall
  /\ pdf_bytes' = NoPdf

Retry_ClearLogs ==
  /\ pc = "wait"
  /\ state = "Failure"
  /\ state' = "Idle"
  /\ error' = ErrNone
  /\ logs' = << >>
  /\ pc' = "rerun"
  /\ UNCHANGED <<results, rationales, affected, widgets, call, pdf_bytes, group_ret>>

Retry_ToRunning ==
  /\ pc = "wait"
  /\ state = "Failure"
  /\ state' = "Running"
  /\ error' = ErrNone
  /\ pc' = "rerun"
  /\ UNCHANGED <<results, rationales, affected, logs, widgets, call, pdf_bytes, group_ret>>

Retry_KeepError ==
  /\ pc = "wait"
  /\ state = "Failure"
  /\ state' = "Idle"
  /\ pc' = "rerun"
  /\ UNCHANGED <<results, rationales, affected, logs, error, widgets, call, pdf_bytes, group_ret>>

Retry ==
  /\ pc = "wait"
  /\ state = "Failure"
  /\ state' = "Idle"
  /\ error' = ErrNone
  /\ pc' = "rerun"
  /\ UNCHANGED <<results, rationales, affected, logs, widgets, call, pdf_bytes, group_ret>>

(***************************************************************************)
(* Script runs that follow a rerun                                         *)
(***************************************************************************)
RenderIdle ==
  /\ pc = "rerun"
  /\ state = "Idle"
  /\ widgets' = NoWidgets
  /\ group_ret' = NoGroupRet
  /\ pc' = "wait"
  /\ UNCHANGED <<state, results, rationales, affected, logs, error, call, pdf_bytes>>

RenderComplete ==
  /\ pc = "rerun"
  /\ state = "Complete"
  /\ group_ret' = GroupRet(results.value)
  /\ LET view == CompleteView(results.value, rationales, affected, widgets)
     IN  /\ rationales' = view.rationales
         /\ affected' = view.affected
         /\ widgets' = view.widgets
  /\ pc' = "wait"
  /\ UNCHANGED <<state, results, logs, error, call, pdf_bytes>>

RenderFailure ==
  /\ pc = "rerun"
  /\ state = "Failure"
  /\ pc' = "wait"
  /\ UNCHANGED <<state, results, rationales, affected, logs, error, widgets, call, pdf_bytes, group_ret>>

(***************************************************************************)
(* Running branch: the simulated pipeline and its except clause            *)
(***************************************************************************)
RunIngestion ==
  /\ pc = "rerun"
  /\ state = "Running"
  /\ logs' = Append(logs, LogIngestion)
  /\ pc' = "run1"
  /\ UNCHANGED <<state, results, rationales, affected, error, widgets, call, pdf_bytes, group_ret>>

RunParsing ==
  /\ pc = "run1"
  /\ logs' = Append(logs, LogParsing)
  /\ pc' = "run2"
  /\ UNCHANGED <<state, results, rationales, affected, error, widgets, call, pdf_bytes, group_ret>>

RunClassification ==
  /\ pc = "run2"
  /\ logs' = Append(logs, LogClassification)
  /\ pc' = "run3"
  /\ UNCHANGED <<state, results, rationales, affected, error, widgets, call, pdf_bytes, group_ret>>

RunComplete_NoLog ==
  /\ pc = "run3"
  /\ results' = ResultsList(STUB_UPDATES)
  /\ state' = "Complete"
  /\ error' = ErrNone
  /\ pc' = "rerun"
  /\ UNCHANGED <<rationales, affected, logs, widgets, call, pdf_bytes, group_ret>>

RunComplete ==
  /\ pc = "run3"
  /\ results' = ResultsList(STUB_UPDATES)
  /\ logs' = Append(logs, LogComplete)
  /\ state' = "Complete"
  /\ error' = ErrNone
  /\ pc' = "rerun"
  /\ UNCHANGED <<rationales, affected, widgets, call, pdf_bytes, group_ret>>

InRunningBranch ==
  \/ pc = "rerun" /\ state = "Running"
  \/ pc \in {"run1", "run2", "run3"}

RunException_Typo(m) ==
  /\ InRunningBranch
  /\ logs' = Append(logs, LogError(m))
  /\ error' = ErrStr(m)
  /\ state' = "Failed"
  /\ pc' = "rerun"
  /\ UNCHANGED <<results, rationales, affected, widgets, call, pdf_bytes, group_ret>>

RunException_NoLog(m) ==
  /\ InRunningBranch
  /\ error' = ErrStr(m)
  /\ state' = "Failure"
  /\ pc' = "rerun"
  /\ UNCHANGED <<results, rationales, affected, logs, widgets, call, pdf_bytes, group_ret>>

RunException(m) ==
  /\ InRunningBranch
  /\ logs' = Append(logs, LogError(m))
  /\ error' = ErrStr(m)
  /\ state' = "Failure"
  /\ pc' = "rerun"
  /\ UNCHANGED <<results, rationales, affected, widgets, call, pdf_bytes, group_ret>>

(***************************************************************************)
(* Fallback view of the final `else` branch                                *)
(***************************************************************************)
UnrecognizedState == state \notin {"Idle", "Running", "Complete", "Failure"}

FallbackRetry ==
  /\ pc = "wait"
  /\ UnrecognizedState
  /\ state' = "Idle"
  /\ pc' = "rerun"
  /\ UNCHANGED <<results, rationales, affected, logs, error, widgets, call,
                 pdf_bytes, group_ret>>

(***************************************************************************)
(* Specifications                                                          *)
(***************************************************************************)
UserAction ==
  \/ RunAnalysis
  \/ \E id \in 1..Len(STUB_UPDATES), text \in EditTexts : EditRationale(id, text)
  \/ \E id \in 1..Len(STUB_UPDATES), text \in EditTexts : EditAffected(id, text)
  \/ \E now \in Timestamps : DownloadPDF(now)
  \/ DownloadReport
  \/ Reset
  \/ Retry

PipelineStep ==
  \/ RunIngestion
  \/ RunParsing
  \/ RunClassification
  \/ RunComplete
  \/ \E m \in Msgs : RunException(m)

ViewStep ==
  \/ RenderIdle
  \/ RenderComplete
  \/ RenderFailure

Next == UserAction \/ PipelineStep \/ ViewStep

Spec == Init /\ [][Next]_vars

\* The script runs on a single thread and returns control only at its end:
\* a started run, and a requested rerun, always proceed.
FairSpec == Spec /\ WF_vars(PipelineStep) /\ WF_vars(ViewStep)

(***************************************************************************)
(* The renderer on its own, over bounded input sets                        *)
(***************************************************************************)
Candidates ==
  {[STUB_UPDATES[i] EXCEPT !.impact_level = l] : i \in 1..Len(STUB_UPDATES), l \in InputLevels}

DistinctIds(us) == \A i, j \in 1..Len(us) : i # j => us[i].id # us[j].id

UpdateLists ==
  {us \in UNION {[1..n -> Candidates] : n \in 0..MaxUpdates} : DistinctIds(us)}

EditDicts == UNION {[S -> EditTexts] : S \in SUBSET (1..MaxEditId)}

InitPdf ==
  /\ state = "Idle"
  /\ results = ResultsNone
  /\ rationales = EmptyDict
  /\ affected = EmptyDict
  /\ logs = << >>
  /\ error = ErrUnset
  /\ widgets = NoWidgets
  /\ pc = "pdf"
  /\ call \in [updates : UpdateLists, rationales : EditDicts,
               affected : EditDicts, now : Timestamps]
  /\ pdf_bytes = NoPdf
  /\ group_ret = NoGroupRet

CallGeneratePdf ==
  /\ pc = "pdf"
  /\ pdf_bytes = NoPdf
  /\ group_ret' = GroupRet(call.updates)
  /\ pdf_bytes' = generate_pdf(call.updates, call.rationales, call.affected, call.now)
  /\ UNCHANGED <<state, results, rationales, affected, logs, error, widgets, pc, call>>

NextPdf == CallGeneratePdf

SpecPdf == InitPdf /\ [][NextPdf]_vars

TypeOK ==
  /\ state \in {"Idle", "Running", "Complete", "Failure"}
  /\ pc \in {"wait", "rerun", "run1", "run2", "run3", "pdf"}
  /\ Len(logs) <= MaxLog

(***************************************************************************)
(* Session workflow properties                                             *)
(***************************************************************************)
ErrorAbsent(e) == e.kind \in {"unset", "none"}

\* C1: in every reachable session state the result set is present if and
\* only if the workflow state is Complete, and an error string is present
\* only when the workflow state is Failure.
C1_ResultsIffComplete ==
  /\ (results.kind = "list") <=> (state = "Complete")
  /\ (error.kind = "str") => (state = "Failure")

\* A Complete session reached after an earlier failed run.
C1_Witness ==
  /\ state = "Complete"
  /\ pc = "wait"
  /\ results = ResultsList(STUB_UPDATES)
  /\ error = ErrNone
  /\ \E i \in 1..Len(logs) : \E m \in Msgs : logs[i] = LogError(m)

AllowedTransitions ==
  { <<"Idle", "Running">>, <<"Running", "Complete">>, <<"Running", "Failure">>,
    <<"Complete", "Idle">>, <<"Failure", "Idle">> }

AnyEdit ==
  \/ \E id \in 1..Len(STUB_UPDATES), text \in EditTexts : EditRationale(id, text)
  \/ \E id \in 1..Len(STUB_UPDATES), text \in EditTexts : EditAffected(id, text)

AnyDownload == (\E now \in Timestamps : DownloadPDF(now)) \/ DownloadReport

\* C2: the workflow state changes only along Idle->Running (Run Analysis),
\* Running->Complete, Running->Failure, Complete->Idle (Reset) and
\* Failure->Idle (Retry); a user action taken in Idle is Run Analysis, none
\* is taken in Running, in Complete it is Download PDF, Reset or an edit,
\* and in Failure it is Retry.
C2_OnlyDocumentedTransitions ==
  [][ /\ (state' # state => <<state, state'>> \in AllowedTransitions)
      /\ (state = "Idle" /\ state' = "Running" => RunAnalysis)
      /\ (state = "Complete" /\ state' = "Idle" => Reset)
      /\ (state = "Failure" /\ state' = "Idle" => Retry)
      /\ (state = "Running" /\ state' # state => ~UserAction)
      /\ (UserAction /\ state = "Idle" => RunAnalysis)
      /\ (state = "Running" => ~UserAction)
      /\ (UserAction /\ state = "Complete" => (AnyDownload \/ Reset \/ AnyEdit))
      /\ (UserAction /\ state = "Failure" => Retry)
    ]_vars

\* Back in Idle, awaiting the user, after a failed run and Retry.
C2_Witness ==
  /\ state = "Idle"
  /\ pc = "wait"
  /\ Len(logs) > 0

\* C3: every way of leaving Running other than completion ends in Failure
\* with the exception message stored as the error string, 'Error: <message>'
\* appended as the last log entry and the result set absent; this holds in
\* Failure for as long as the session stays there.
C3_ExceptionRoutedToFailure ==
  /\ [](state = "Failure" =>
          /\ error.kind = "str"
          /\ results = ResultsNone
          /\ Len(logs) > 0
          /\ logs[Len(logs)] = LogError(error.msg))
  /\ [][ (state = "Running" /\ state' \notin {"Running", "Complete"}) =>
           /\ state' = "Failure"
           /\ pc' = "rerun"
           /\ results' = ResultsNone
           /\ \E m \in Msgs : /\ error' = ErrStr(m)
                              /\ logs' = Append(logs, LogError(m))
       ]_vars

\* A failure raised after two of the 'started' lines.
C3_Witness ==
  /\ state = "Failure"
  /\ logs = <<LogIngestion, LogParsing, LogError("Simulated analysis failure.")>>
  /\ error = ErrStr("Simulated analysis failure.")

\* C4: leaving Complete (Reset) puts the session in Idle with the result set
\* absent, both edit maps empty, the log empty and the error absent, as at
\* session start.
C4_ResetClearsSession ==
  [][ (state = "Complete" /\ state' # "Complete") =>
        /\ state' = "Idle"
        /\ results' = ResultsNone
        /\ rationales' = EmptyDict
        /\ affected' = EmptyDict
        /\ logs' = << >>
        /\ ErrorAbsent(error')
    ]_vars

\* Just after Reset of a session in which record 1 had been edited.
C4_Witness ==
  /\ state = "Idle"
  /\ pc = "rerun"
  /\ logs = << >>
  /\ rationales = EmptyDict
  /\ 1 \in DOMAIN widgets.affected
  /\ widgets.affected[1] = "Shield"

\* C5: leaving Failure (Retry) puts the session in Idle with the error
\* cleared.
C5_RetryClearsError ==
  [][ (state = "Failure" /\ state' # "Failure") =>
        /\ Retry
        /\ state' = "Idle"
        /\ error' = ErrNone
    ]_vars

\* Just after Retry: Idle, the failed run's error line still last in the log.
C5_Witness ==
  /\ state = "Idle"
  /\ pc = "rerun"
  /\ error = ErrNone
  /\ Len(logs) > 0
  /\ \E m \in Msgs : logs[Len(logs)] = LogError(m)

\* C6: a run that finishes without error appends exactly the four lines
\* ingestion started, parsing started, classification started, analysis
\* complete, in this order, and enters Complete with the result set equal to
\* the seed set and the error absent.
C6_SuccessfulRun ==
  [][ /\ (state = "Running" /\ state' = "Running") =>
            \/ pc = "rerun" /\ pc' = "run1" /\ logs' = Append(logs, LogIngestion)
            \/ pc = "run1" /\ pc' = "run2" /\ logs' = Append(logs, LogParsing)
            \/ pc = "run2" /\ pc' = "run3" /\ logs' = Append(logs, LogClassification)
      /\ (state = "Running" /\ state' = "Complete") =>
            /\ pc = "run3"
            /\ Len(logs) >= 3
            /\ SubSeq(logs, Len(logs) - 2, Len(logs))
                 = <<LogIngestion, LogParsing, LogClassification>>
            /\ logs' = Append(logs, LogComplete)
            /\ results' = ResultsList(STUB_UPDATES)
            /\ error' = ErrNone
    ]_vars

\* On entering Complete, before the Complete view has been drawn.
C6_Witness ==
  /\ state = "Complete"
  /\ pc = "rerun"
  /\ Len(logs) >= 4
  /\ SubSeq(logs, Len(logs) - 3, Len(logs))
       = <<LogIngestion, LogParsing, LogClassification, LogComplete>>
  /\ results = ResultsList(STUB_UPDATES)

\* C7: once Running, the session eventually reaches Complete or Failure, and
\* no user action occurs while it is Running.
C7_RunningAlwaysFinishes ==
  /\ (state = "Running") ~> (state \in {"Complete", "Failure"})
  /\ [][ state = "Running" =>
           /\ ~UserAction
           /\ state' \in {"Running", "Complete", "Failure"}
           /\ UNCHANGED <<rationales, affected, widgets, call, pdf_bytes>>
       ]_vars

\* The pipeline mid-run, after the classification line.
C7_Witness ==
  /\ state = "Running"
  /\ pc = "run3"
  /\ logs = <<LogIngestion, LogParsing, LogClassification>>

(***************************************************************************)
(* Renderer properties, stated on the flowables of the last rendering      *)
(***************************************************************************)
Rendered == pdf_bytes.kind = "ok"
Elements == pdf_bytes.elements

PageBreakIdx == {i \in DOMAIN Elements : Elements[i].kind = "PageBreak"}
HeadingIdx == {i \in DOMAIN Elements : Elements[i].style = "Heading2"}

\* index of the k-th section heading, and the last index of its section
HeadingAt(k) == CHOOSE i \in HeadingIdx : Cardinality({j \in HeadingIdx : j < i}) = k - 1
SectionEnd(k) ==
  IF k < Cardinality(HeadingIdx) THEN HeadingAt(k + 1) - 1 ELSE Len(Elements)
SectionSlice(k) == SubSeq(Elements, HeadingAt(k), SectionEnd(k))

BucketOf(level) == SelectSeq(call.updates, LAMBDA u : u.impact_level = level)

CountryLine(u) ==
  "<b>Country & Regulation</b>: " \o u.country \o ", " \o u.regulation_name
  \o " (" \o u.reference_number \o "), " \o u.authority
BlockIdx(u) == {i \in DOMAIN Elements : Elements[i].text = CountryLine(u)}
BannerIdx == {i \in DOMAIN Elements :
                Elements[i].text \in {"<b>[GUARDANT HEALTH APPLICABLE]</b>",
                                      "<b>[NOT DIRECTLY APPLICABLE]</b>"}}
Placeholder == Paragraph("No updates in this section.", "Normal")

\* C8: the rendered document has a page break after each of the four impact
\* sections, an empty section included: four page breaks in all, one as the
\* last element of each section.
C8_PageBreakAfterEachSection ==
  Rendered =>
    /\ Cardinality(PageBreakIdx) = 4
    /\ Cardinality(HeadingIdx) = 4
    /\ \A k \in 1..4 : Elements[SectionEnd(k)].kind = "PageBreak"

\* C9: each record's block shows, for the rationale and independently for
\* the affected products, the edit-map value of the record's identifier when
\* the map has that key (the empty string included), and otherwise the
\* record's default rationale, resp. its default product list joined by ', '.
C9_EditedValueElseDefault ==
  Rendered =>
    \A n \in 1..Len(call.updates) :
      LET u == call.updates[n]
          k == Len(u.key_changes)
          want_rationale == IF u.id \in DOMAIN call.rationales
                            THEN call.rationales[u.id] ELSE u.rationale
          want_affected == IF u.id \in DOMAIN call.affected
                           THEN call.affected[u.id]
                           ELSE Join(", ", u.affected_products)
      IN  /\ Cardinality(BlockIdx(u)) = 1
          /\ \A i \in BlockIdx(u) :
                /\ i + 6 + k <= Len(Elements)
                /\ Elements[i + 5 + k].text = "- <b>Rationale</b>: " \o want_rationale
                /\ Elements[i + 6 + k].text
                     = "- <b>Affected Products or Operations</b>: " \o want_affected

\* Records 1 and 2 rendered with an empty-string rationale edit for record 1
\* only and an affected-products edit for no record.
C9_Witness ==
  /\ Rendered
  /\ pc = "pdf"
  /\ Len(call.updates) >= 2
  /\ \E a, b \in 1..Len(call.updates) :
        /\ call.updates[a].id = 1
        /\ call.updates[b].id = 2
  /\ DOMAIN call.rationales = {1}
  /\ call.rationales[1] = ""
  /\ call.affected = EmptyDict

\* C10: the rendered document has exactly four section headings, in the
\* order CRITICAL, HIGH, MEDIUM, LOW; a section whose bucket is empty holds
\* the 'No updates in this section.' placeholder and no record block, and a
\* section whose bucket is not empty holds no placeholder.
C10_FourSectionsInFixedOrder ==
  Rendered =>
    /\ Cardinality(HeadingIdx) = 4
    /\ \A k \in 1..4 :
          /\ Elements[HeadingAt(k)] = Paragraph(impact_sections[k][2], "Heading2")
          /\ IF Len(BucketOf(impact_sections[k][1])) = 0
             THEN /\ \E i \in HeadingAt(k)..SectionEnd(k) : Elements[i] = Placeholder
                  /\ \A i \in HeadingAt(k)..SectionEnd(k) : i \notin BannerIdx
             ELSE \A i \in HeadingAt(k)..SectionEnd(k) : Elements[i] # Placeholder

\* A rendering of two records given in the order LOW, CRITICAL: the HIGH
\* and MEDIUM sections are empty.
C10_Witness ==
  /\ Rendered
  /\ pc = "pdf"
  /\ Len(call.updates) = 2
  /\ call.updates[1].impact_level = "LOW"
  /\ call.updates[2].impact_level = "CRITICAL"

(***************************************************************************)
(* Grouping properties, stated on the value returned to the renderer       *)
(***************************************************************************)
Grouped == pc = "pdf" /\ group_ret.called
AllRecognized == \A i \in 1..Len(call.updates) : call.updates[i].impact_level \in Levels
BucketSlots == {<<l, j>> \in Levels \X (1..Len(call.updates)) : j <= Len(group_ret.value[l])}

RECURSIVE SumLen(_, _)
SumLen(f, S) ==
  IF S = {} THEN 0
  ELSE LET l == CHOOSE x \in S : TRUE IN Len(f[l]) + SumLen(f, S \ {l})

\* C11: for an input whose records all carry a recognized impact level,
\* group_updates_by_impact returns exactly the four buckets CRITICAL, HIGH,
\* MEDIUM, LOW; each bucket is the input restricted to its level, in input
\* order; every input record sits in exactly one bucket slot; the bucket
\* sizes add up to the input length (seed set: 1, 1, 0, 1).
C11_GroupingPartitions ==
  (Grouped /\ AllRecognized) =>
    /\ ~group_ret.raised
    /\ DOMAIN group_ret.value = Levels
    /\ \A l \in Levels : group_ret.value[l] = BucketOf(l)
    /\ \A i \in 1..Len(call.updates) :
          /\ Cardinality({sl \in BucketSlots :
                            group_ret.value[sl[1]][sl[2]] = call.updates[i]}) = 1
          /\ \E j \in 1..Len(call.updates) :
                /\ j <= Len(group_ret.value[call.updates[i].impact_level])
                /\ group_ret.value[call.updates[i].impact_level][j] = call.updates[i]
    /\ SumLen(group_ret.value, Levels) = Len(call.updates)
    /\ (call.updates = STUB_UPDATES =>
          /\ Len(group_ret.value["CRITICAL"]) = 1
          /\ Len(group_ret.value["HIGH"]) = 1
          /\ Len(group_ret.value["MEDIUM"]) = 0
          /\ Len(group_ret.value["LOW"]) = 1)

\* Three records of one level given in the order 3, 1, 2 and grouped.
C11_Witness ==
  /\ Grouped
  /\ ~group_ret.raised
  /\ Len(call.updates) = 3
  /\ \A i \in 1..3 : call.updates[i].impact_level = "MEDIUM"
  /\ call.updates[1].id = 3
  /\ call.updates[2].id = 1
  /\ Len(group_ret.value["MEDIUM"]) = 3

\* the country lines met in section k, in document order
RECURSIVE CountryLines(_)
CountryLines(es) ==
  IF Len(es) = 0 THEN << >>
  ELSE (IF \E n \in 1..Len(call.updates) : es[1].text = CountryLine(call.updates[n])
        THEN <<es[1].text>> ELSE << >>)
       \o CountryLines(Tail(es))

RECURSIVE LinesOf(_)
LinesOf(us) ==
  IF Len(us) = 0 THEN << >> ELSE <<CountryLine(us[1])>> \o LinesOf(Tail(us))

\* C12: the rendered document holds exactly one record block per input
\* update; the blocks of section k are those of the input records of that
\* impact level, in their input order.
C12_OneBlockPerUpdate ==
  (Rendered /\ pc = "pdf") =>
    /\ Cardinality(BannerIdx) = Len(call.updates)
    /\ Cardinality(HeadingIdx) = 4
    /\ \A k \in 1..4 :
          CountryLines(SectionSlice(k)) = LinesOf(BucketOf(impact_sections[k][1]))

\* Records 2 and 1 (in this order) both HIGH, record 3 CRITICAL, rendered.
C12_Witness ==
  /\ Rendered
  /\ pc = "pdf"
  /\ Len(call.updates) = 3
  /\ call.updates[1].id = 2 /\ call.updates[1].impact_level = "HIGH"
  /\ call.updates[2].id = 3 /\ call.updates[2].impact_level = "CRITICAL"
  /\ call.updates[3].id = 1 /\ call.updates[3].impact_level = "HIGH"

(***************************************************************************)
(* Edit maps and log                                                       *)
(***************************************************************************)
SeedIds == {STUB_UPDATES[n].id : n \in 1..Len(STUB_UPDATES)}
DefaultAffected(u) == Join(", ", u.affected_products)

\* C13: a displayed Complete view has written both edit maps for every record
\* of the result set: with the record's defaults when the view is first
\* drawn, and after an edit with the new text for the edited record and
\* field only; the report of Download PDF shows, for every record, the
\* values the maps hold (record 1 edited to 'Shield' shows 'Shield', the
\* untouched record 2 shows 'Guardant Reveal').
C13_EditsReachTheReport ==
  /\ []((state = "Complete" /\ pc = "wait") =>
          /\ DOMAIN rationales = SeedIds
          /\ DOMAIN affected = SeedIds
          /\ (Rendered =>
                \A n \in 1..Len(results.value) :
                  LET u == results.value[n]
                      k == Len(u.key_changes)
                  IN  /\ Cardinality(BlockIdx(u)) = 1
                      /\ \A i \in BlockIdx(u) :
                            /\ Elements[i + 5 + k].text
                                 = "- <b>Rationale</b>: " \o rationales[u.id]
                            /\ Elements[i + 6 + k].text
                                 = "- <b>Affected Products or Operations</b>: "
                                   \o affected[u.id]))
  /\ [][ /\ (state = "Complete" /\ pc = "rerun" /\ pc' = "wait") =>
               \A n \in 1..Len(STUB_UPDATES) :
                  /\ rationales'[STUB_UPDATES[n].id] = STUB_UPDATES[n].rationale
                  /\ affected'[STUB_UPDATES[n].id] = DefaultAffected(STUB_UPDATES[n])
         /\ (state = "Complete" /\ pc = "wait" /\ pc' = "wait"
               /\ <<rationales, affected>>' # <<rationales, affected>>) =>
               \E id \in SeedIds, text \in EditTexts :
                  \/ /\ rationales' = [rationales EXCEPT ![id] = text]
                     /\ affected' = affected
                  \/ /\ affected' = [affected EXCEPT ![id] = text]
                     /\ rationales' = rationales
       ]_vars

\* The report generated after editing affected-products of record 1 to
\* 'Shield', record 2 untouched.
C13_Witness ==
  /\ state = "Complete"
  /\ pc = "wait"
  /\ Rendered
  /\ affected[1] = "Shield"
  /\ affected[2] = "Guardant Reveal"
  /\ rationales[1] = STUB_UPDATES[1].rationale
  /\ \E i \in DOMAIN Elements :
        Elements[i].text = "- <b>Affected Products or Operations</b>: Shield"
  /\ \E i \in DOMAIN Elements :
        Elements[i].text = "- <b>Affected Products or Operations</b>: Guardant Reveal"

IsPrefix(a, b) == Len(a) <= Len(b) /\ SubSeq(b, 1, Len(a)) = a

\* C14: every step other than Reset keeps the existing log as a prefix of
\* the new log; the only step that removes entries is Reset, which empties
\* the log.
C14_LogAppendOnly ==
  [][ \/ IsPrefix(logs, logs')
      \/ (Reset /\ state = "Complete" /\ state' = "Idle" /\ logs' = << >>)
    ]_vars

\* A log holding a failed run, a successful run and a rendering, in order.
C14_Witness ==
  /\ state = "Complete"
  /\ logs = <<LogError(""), LogIngestion, LogParsing, LogClassification,
              LogComplete, LogPdf>>

\* C16: grouping raises exactly when some record of the input, at whatever
\* position, carries an impact level other than CRITICAL, HIGH, MEDIUM, LOW;
\* it then returns no bucket contents (the record is neither dropped from a
\* returned result nor put in a fifth bucket) and no document is rendered.
C16_UnrecognizedLevelRaises ==
  Grouped =>
    /\ group_ret.raised <=> ~AllRecognized
    /\ DOMAIN group_ret.value = Levels
    /\ group_ret.raised =>
          /\ \A l \in Levels : group_ret.value[l] = << >>
          /\ pdf_bytes.kind = "raised"

\* The unrecognized record last, after two recognized ones.
C16_Witness ==
  /\ Grouped
  /\ group_ret.raised
  /\ Len(call.updates) = 3
  /\ call.updates[1].impact_level \in Levels
  /\ call.updates[2].impact_level \in Levels
  /\ call.updates[3].impact_level = "UNKNOWN"

\* C17: the workflow state is always one of Idle, Running, Complete,
\* Failure, so the fallback view and its Retry are never reached.
C17_StateAlwaysRecognized ==
  /\ state \in {"Idle", "Running", "Complete", "Failure"}
  /\ ~UnrecognizedState
  /\ ~ENABLED FallbackRetry

\* A second failure, the first one retried: every branch but the fallback
\* has been taken or is still to come.
C17_Witness ==
  /\ state = "Failure"
  /\ pc = "wait"
  /\ \E i \in 1..(Len(logs) - 1) : \E m \in Msgs : logs[i] = LogError(m)

\* C18: outside Complete both edit maps are empty; in Complete they have the
\* same keys, all of them identifiers of records of the result set.
C18_EditMapsOnlyInComplete ==
  /\ state # "Complete" => (rationales = EmptyDict /\ affected = EmptyDict)
  /\ state = "Complete" =>
        /\ DOMAIN rationales = DOMAIN affected
        /\ DOMAIN rationales \subseteq {results.value[n].id : n \in 1..Len(results.value)}

\* Complete, displayed, with an edit stored for record 2.
C18_Witness ==
  /\ state = "Complete"
  /\ pc = "wait"
  /\ DOMAIN rationales = SeedIds
  /\ rationales[2] = ""
  /\ affected[2] = "Guardant Reveal"

\* C19: Retry (Failure -> Idle) and Run Analysis (Idle -> Running) leave the
\* log, the result set and both edit maps unchanged and put None in the
\* error field, so a run that completes after a retried failure has the
\* failed run's lines before its own; the log is empty only while no run
\* has appended a line since session start or the last Reset.
C19_RetryAndRunKeepLog ==
  /\ [](logs = << >> => (state = "Idle" \/ (state = "Running" /\ pc = "rerun")))
  /\ [](pc = "wait" /\ logs = << >> =>
          /\ state = "Idle"
          /\ results = ResultsNone
          /\ ErrorAbsent(error))
  /\ [][ ((state = "Failure" /\ state' = "Idle") \/ (state = "Idle" /\ state' = "Running")) =>
           /\ UNCHANGED <<logs, results, rationales, affected>>
           /\ error' = ErrNone
       ]_vars

\* Failure after one line, Retry, Run Analysis, then a complete run.
C19_Witness ==
  /\ state = "Complete"
  /\ logs = <<LogIngestion, LogError("Simulated analysis failure."),
              LogIngestion, LogParsing, LogClassification, LogComplete>>

AnyDownloadPDF == \E now \in Timestamps : DownloadPDF(now)

\* C20: Download PDF is taken only in Complete; it leaves the workflow
\* state, the result set, both edit maps and the error field unchanged and
\* appends exactly one 'PDF rendered' line; no other step appends that line
\* or produces a document.
C20_DownloadOnlyAppendsLog ==
  [][ /\ AnyDownloadPDF =>
            /\ state = "Complete"
            /\ UNCHANGED <<state, results, rationales, affected, error>>
            /\ logs' = Append(logs, LogPdf)
            /\ pdf_bytes'.kind = "ok"
      /\ (logs' # logs /\ Len(logs') > 0 /\ logs'[Len(logs')] = LogPdf) => AnyDownloadPDF
      /\ (pdf_bytes' # pdf_bytes /\ pdf_bytes' # NoPdf) =>
            /\ state = "Complete"
            /\ state' = "Complete"
            /\ logs' = Append(logs, LogPdf)
            /\ UNCHANGED <<results, rationales, affected, error>>
    ]_vars

\* Two renderings in a row in one Complete session.
C20_Witness ==
  /\ state = "Complete"
  /\ Rendered
  /\ logs = <<LogIngestion, LogParsing, LogClassification, LogComplete, LogPdf, LogPdf>>

====
